---- MODULE Spec2Model ----
(***************************************************************************)
(* Model of oppia-ml-proto's developer tooling:                            *)
(*   install_prototool.py   - fetches the prototool binary                 *)
(*   pre_commit_linter.py   - selects files, checks the newline at EOF     *)
(*                            convention and lints .proto files in a       *)
(*                            worker process                               *)
(* The scripts are Python 2 (urllib.urlretrieve, str/bytes comparison in   *)
(* the newline check), and are modelled with Python 2 semantics.           *)
(***************************************************************************)
EXTENDS Integers, Sequences, FiniteSets, TLC

(***************************************************************************)
(* Bounds of the model.                                                    *)
(***************************************************************************)
\* longest file content (in bytes) the newline checker is run on
MaxLen == 2
\* largest elapsed time (tenths of a second) printed in the SUCCESS summary
MaxSecs == 1
\* how many times the linter is run on the same repository state
MaxRuns == 2
\* how many times the installer is run before the linter
MaxInstalls == 2
\* longest file list the newline checker is called on by itself
MaxFiles == 3
\* granularity of the clock while the controller waits in join()
TimeStep == 300

(***************************************************************************)
(* Program constants.                                                      *)
(***************************************************************************)
\* process.join(timeout=600)
JOIN_TIMEOUT == 600

_MESSAGE_TYPE_SUCCESS == "SUCCESS"
_MESSAGE_TYPE_FAILED == "FAILED"

\* EXCLUDED_PATHS = ('third_party/*', '.git/*', '.github/*'): the leading
\* directory each glob fixes
EXCLUDED_PATHS == {"third_party", ".git", ".github"}

(***************************************************************************)
(* Paths.  A path is its leading directory ("" for the repository root),   *)
(* its stem and its extension; abs tells a path joined to os.getcwd().     *)
(***************************************************************************)
Path(top, stem, ext) == [abs |-> FALSE, top |-> top, stem |-> stem, ext |-> ext]

\* os.path.join(os.getcwd(), p)
JoinCwd(p) == [p EXCEPT !.abs = TRUE]

\* the file a path designates, whichever way it is written
Resolve(p) == [p EXCEPT !.abs = FALSE]

A == Path("", "a", "proto")
B == Path("", "b", "proto")
T == Path("", "n", "txt")
E == Path("third_party", "t", "proto")
M1 == Path("", "gone1", "proto")
M2 == Path("", "gone2", "txt")
Root == Path("", "", "")
Nowhere == Path("", "nowhere", "")

\* the regular files of the repository, in the order os.walk lists them
RepoListing == <<A, E, B, T>>
RepoFiles == {RepoListing[i] : i \in 1..Len(RepoListing)}
LintedFiles == {A, B}
Directories == {Root}

\* bytes: the newline and any other byte
NL == "\n"
Bytes == {NL, "x"}

RECURSIVE SeqsUpTo(_, _)
SeqsUpTo(S, n) ==
    IF n = 0 THEN {<<>>}
    ELSE LET shorter == SeqsUpTo(S, n - 1)
         IN  shorter \cup {Append(s, x) : s \in {t \in shorter : Len(t) = n - 1}, x \in S}

Contents == SeqsUpTo(Bytes, MaxLen)

\* outcomes of one `prototool lint` invocation
Verdicts == {"ok", "fail", "hang"}

VARIABLES
    \* ---- environment ----
    cwdOk,          \* os.getcwd() ends with 'oppia-ml-proto'
    tp,             \* third_party/prototool-1.10.0: "absent", "dir" (empty
                    \* directory), "bin" (binary, not executable), "binx"
    configExists,   \* prototool_config.json is a file
    args,           \* the command line and what git reports
    fs,             \* content of every regular file
    verdict,        \* what prototool does on each .proto file
    \* ---- install_prototool.py ----
    ipc, installs, downloads,
    \* ---- pre_commit_linter.py, controller ----
    pc, all_files, nl_idx, total_files_checked, total_error_count, failed,
    newline_messages, proto_files_to_lint, linter_messages, exitCode, raised,
    console, nl_errors, waited,
    \* ---- pre_commit_linter.py, worker process ----
    wpc, widx, errors_exist, invoked, queue,
    \* ---- repeated runs ----
    run, prev

envVars == <<cwdOk, tp, configExists, args, fs, verdict>>
installVars == <<ipc, installs, downloads>>
ctlVars == <<pc, all_files, nl_idx, total_files_checked, total_error_count,
             failed, newline_messages, proto_files_to_lint, linter_messages,
             exitCode, raised, console, nl_errors, waited>>
workerVars == <<wpc, widx, errors_exist, invoked, queue>>
runVars == <<run, prev>>
vars == <<envVars, installVars, ctlVars, workerVars, runVars>>

(***************************************************************************)
(* Command lines.  mode is the option given; in changed-files mode the     *)
(* two lists are what `git diff` and `git diff --cached` print.            *)
(***************************************************************************)
PathArgs(p) == [mode |-> "path", path |-> p, files |-> <<>>,
                unstaged |-> <<>>, staged |-> <<>>]
FilesArgs(fl) == [mode |-> "files", path |-> Root, files |-> fl,
                  unstaged |-> <<>>, staged |-> <<>>]
ChangedArgs(u, s) == [mode |-> "changed", path |-> Root, files |-> <<>>,
                      unstaged |-> u, staged |-> s]

ArgChoices ==
    {PathArgs(Nowhere), PathArgs(A), PathArgs(Root),
     FilesArgs(<<B, T>>), FilesArgs(<<M1, T, M2>>), FilesArgs(<<T, Root>>),
     ChangedArgs(<<A>>, <<A, T>>), ChangedArgs(<<>>, <<T>>)}

\* a file that keeps the convention and one that does not
WellEnded == <<"x", NL>>
EndingClasses == {WellEnded, <<"x">>}

(***************************************************************************)
(* Summary messages: the tag the text starts with, the text, and the two   *)
(* numbers the SUCCESS message of the proto stage is formatted with.       *)
(***************************************************************************)
Message(tag, text, count, secs) ==
    [tag |-> tag, text |-> text, count |-> count, secs |-> secs]

\* mutant: the empty list answered with a tagged summary
EmptyMessageTagged ==
    Message(_MESSAGE_TYPE_SUCCESS, "There are no Proto files to lint.", 0, 0)

\* result.put('')
EmptyMessage == Message("", "", 0, 0)

\* message.startswith(_MESSAGE_TYPE_FAILED)
StartsWithFailed(m) == m.tag = _MESSAGE_TYPE_FAILED

\* what a finished run leaves behind for comparison with the next
NoRun == [done |-> FALSE, newline |-> <<>>, linter |-> <<>>, exitCode |-> 0,
          raised |-> "none"]

(***************************************************************************)
(* State of one linter process before its first statement.                 *)
(***************************************************************************)
FreshLinter ==
    /\ pc = "import"
    /\ all_files = <<>>
    /\ nl_idx = 1
    /\ total_files_checked = 0
    /\ total_error_count = 0
    /\ failed = FALSE
    /\ newline_messages = <<>>
    /\ proto_files_to_lint = <<>>
    /\ linter_messages = <<>>
    /\ exitCode = 0
    /\ raised = "none"
    /\ console = {}
    /\ nl_errors = <<>>
    /\ waited = 0
    /\ wpc = "none"
    /\ widx = 1
    /\ errors_exist = FALSE
    /\ invoked = <<>>
    /\ queue = <<>>

Init ==
    /\ cwdOk \in BOOLEAN
    /\ tp \in {"absent", "dir", "bin", "binx"}
    /\ configExists \in BOOLEAN
    /\ args \in ArgChoices
    /\ fs \in {f \in [RepoFiles -> Contents] :
                 /\ f[E] = WellEnded
                 /\ \A p \in RepoFiles : f[p] \in EndingClasses}
    /\ verdict \in [LintedFiles -> Verdicts]
    /\ ipc = "idle"
    /\ installs = 0
    /\ downloads = 0
    /\ FreshLinter
    /\ run = 1
    /\ prev = NoRun

(***************************************************************************)
(* install_prototool.py                                                    *)
(***************************************************************************)
\* os.path.exists(PROTOTOOL_DIR)
PrototoolDirExists == tp # "absent"

\* os.path.exists(<PROTOTOOL_DIR>/prototool)
PrototoolExists == tp \in {"bin", "binx"}

\* main(): the directory test that guards the download
InstallMain ==
    /\ ipc \in {"idle", "returned", "failed"}
    /\ pc = "import" /\ run = 1
    /\ installs < MaxInstalls
    /\ installs' = installs + 1
    /\ ipc' = IF PrototoolDirExists THEN "returned" ELSE "makedirs"
    /\ UNCHANGED <<envVars, downloads, ctlVars, workerVars, runVars>>

\* download_file(): os.makedirs(target_dir)
Makedirs ==
    /\ ipc = "makedirs"
    /\ tp' = "dir"
    /\ ipc' = "retrieve"
    /\ UNCHANGED <<cwdOk, configExists, args, fs, verdict, installs, downloads,
                   ctlVars, workerVars, runVars>>

\* download_file(): urllib.urlretrieve either writes the file or raises
UrlRetrieve ==
    /\ ipc = "retrieve"
    /\ \/ /\ tp' = "bin"
          /\ downloads' = downloads + 1
          /\ ipc' = "chmod"
       \/ /\ ipc' = "failed"
          /\ UNCHANGED <<tp, downloads>>
    /\ UNCHANGED <<cwdOk, configExists, args, fs, verdict, installs,
                   ctlVars, workerVars, runVars>>

\* make_executable(): exit(1) when the file is missing, else chmod +x, whose
\* exit status subprocess.call returns and the script ignores
MakeExecutable ==
    /\ ipc = "chmod"
    /\ IF ~PrototoolExists
         THEN ipc' = "failed" /\ UNCHANGED tp
         ELSE /\ tp' \in {"bin", "binx"}
              /\ ipc' = "returned"
    /\ UNCHANGED <<cwdOk, configExists, args, fs, verdict, installs, downloads,
                   ctlVars, workerVars, runVars>>

InstallerIdle == ipc \in {"idle", "returned", "failed"}

(***************************************************************************)
(* pre_commit_linter.py: helpers                                           *)
(***************************************************************************)
\* one line of console output: what it reports and the paths it names
Line(kind, what) == [kind |-> kind, what |-> what]

\* os.path.isfile / os.path.exists
IsFile(p) == Resolve(p) \in RepoFiles
Exists(p) == Resolve(p) \in RepoFiles \cup Directories

\* any(fnmatch.fnmatch(filename, pattern) for pattern in EXCLUDED_PATHS):
\* the globs are anchored at the start of the string, so only a relative
\* path below one of the directories matches
Excluded(p) == ~p.abs /\ p.top \in EXCLUDED_PATHS
NotExcluded(p) == ~Excluded(p)

\* filename.endswith('.proto')
EndsWithProto(p) == p.ext = "proto"

\* _get_all_files_in_directory(): every file below the directory, relative
\* to the working directory
GetAllFilesInDirectory(dir) == RepoListing

\* _get_changed_filenames(): unstaged_files + staged_files
GetChangedFilenames == args.unstaged \o args.staged

\* the --files loop: entries that are files, entries that are not
ValidFilepaths == SelectSeq(args.files, IsFile)
IsNotFile(p) == ~IsFile(p)
InvalidFilepaths == SelectSeq(args.files, IsNotFile)

\* sys.exit(1), or an exception nothing catches: the interpreter runs its
\* exit handlers and ends with status 1
Die(why) ==
    /\ pc' = "finalize"
    /\ exitCode' = 1
    /\ raised' = why

(***************************************************************************)
(* pre_commit_linter.py: module-level code (lines 71-81)                   *)
(***************************************************************************)
\* the working-directory test prints its error and goes on; the binary test
\* prints and exits
ModuleLoad ==
    /\ pc = "import"
    /\ InstallerIdle
    /\ LET cwdLines == IF cwdOk THEN {} ELSE {Line("cwd_error", <<>>)}
       IN  IF ~PrototoolExists
             THEN /\ console' = console \cup cwdLines
                                  \cup {Line("no_prototool", <<>>)}
                  /\ Die("SystemExit")
             ELSE /\ console' = console \cup cwdLines
                  /\ pc' = "select"
                  /\ UNCHANGED <<exitCode, raised>>
    /\ UNCHANGED <<envVars, installVars, all_files, nl_idx, total_files_checked,
                   total_error_count, failed, newline_messages,
                   proto_files_to_lint, linter_messages, nl_errors, waited,
                   workerVars, runVars>>

(***************************************************************************)
(* _get_all_files()                                                        *)
(***************************************************************************)
\* mutant: the run goes on with the entries that are files
FilesAlwaysAccepted(invalid) == TRUE

\* the --files branch: whether the run goes on with this list
FilesAccepted(invalid) == invalid = <<>>

GetAllFiles ==
    /\ pc = "select"
    /\ \/ /\ args.mode = "path"
          /\ LET input_path == JoinCwd(args.path)
             IN  IF ~Exists(input_path)
                   THEN /\ console' = console \cup {Line("not_located", <<input_path>>)}
                        /\ Die("SystemExit")
                        /\ UNCHANGED all_files
                   ELSE /\ all_files' = SelectSeq(
                              IF IsFile(input_path) THEN <<input_path>>
                              ELSE GetAllFilesInDirectory(input_path), NotExcluded)
                        /\ pc' = "newline"
                        /\ UNCHANGED <<console, exitCode, raised>>
       \/ /\ args.mode = "files"
          /\ IF ~FilesAccepted(InvalidFilepaths)
               THEN /\ console' = console \cup {Line("do_not_exist", InvalidFilepaths)}
                    /\ Die("SystemExit")
                    /\ UNCHANGED all_files
               ELSE /\ all_files' = SelectSeq(ValidFilepaths, NotExcluded)
                    /\ pc' = "newline"
                    /\ UNCHANGED <<console, exitCode, raised>>
       \/ /\ args.mode = "changed"
          /\ all_files' = SelectSeq(GetChangedFilenames, NotExcluded)
          /\ pc' = "newline"
          /\ UNCHANGED <<console, exitCode, raised>>
    /\ UNCHANGED <<envVars, installVars, nl_idx, total_files_checked,
                   total_error_count, failed, newline_messages,
                   proto_files_to_lint, linter_messages, nl_errors, waited,
                   workerVars, runVars>>

(***************************************************************************)
(* _check_newline_character()                                              *)
(***************************************************************************)
\* the list the loop runs over: all_files filtered once more
NewlineFiles == SelectSeq(all_files, NotExcluded)

\* mutant: only the last byte is looked at
EndsWithNewline(content) == content[Len(content)] = NL

\* f.seek(-2, 2); f.read(1) != '\n' and f.read(1) == '\n'
EndsWithOneNewline(content) ==
    /\ content[Len(content) - 1] # NL
    /\ content[Len(content)] = NL

\* the two branches on total_num_chars: "" when the file passes, else the
\* diagnostic printed
NewlineDiagnostic(content) ==
    LET total_num_chars == Len(content)
    IN  IF total_num_chars = 1 THEN "only_one_character"
        ELSE IF total_num_chars > 1 /\ ~EndsWithOneNewline(content)
               THEN "not_one_newline"
               ELSE ""

\* one iteration of `for filename in all_files`
CheckNewlineFile ==
    /\ pc = "newline"
    /\ nl_idx <= Len(NewlineFiles)
    /\ LET filename == NewlineFiles[nl_idx]
           diag == NewlineDiagnostic(fs[Resolve(filename)])
       IN  /\ total_files_checked' = total_files_checked + 1
           /\ IF diag # ""
                THEN /\ failed' = TRUE
                     /\ total_error_count' = total_error_count + 1
                     /\ nl_errors' = Append(nl_errors, Line(diag, <<filename>>))
                ELSE UNCHANGED <<failed, total_error_count, nl_errors>>
    /\ nl_idx' = nl_idx + 1
    /\ UNCHANGED <<envVars, installVars, pc, all_files, newline_messages,
                   proto_files_to_lint, linter_messages, exitCode, raised,
                   console, waited, workerVars, runVars>>

\* the summary message of the stage
NewlineSummaryMessage(f) ==
    IF f THEN Message(_MESSAGE_TYPE_FAILED, "Newline character checks failed", 0, 0)
    ELSE Message(_MESSAGE_TYPE_SUCCESS, "Newline character checks passed", 0, 0)

\* lines 281-300: the summary, the counts on the console, the return
NewlineSummary ==
    /\ pc = "newline"
    /\ nl_idx > Len(NewlineFiles)
    /\ newline_messages' = <<NewlineSummaryMessage(failed)>>
    /\ console' = console \cup
          {IF total_files_checked = 0 THEN Line("no_files_to_check", <<>>)
           ELSE Line("files_checked", <<>>)}
    /\ pc' = "config"
    /\ UNCHANGED <<envVars, installVars, all_files, nl_idx, total_files_checked,
                   total_error_count, failed, proto_files_to_lint,
                   linter_messages, exitCode, raised, nl_errors, waited,
                   workerVars, runVars>>

(***************************************************************************)
(* _pre_commit_linter(): the controller of the proto-lint stage            *)
(***************************************************************************)
\* mutant: the configuration file is taken to be there
ConfigAssumed == TRUE

\* os.path.isfile(PROTOTOOL_CONFIG_FILE)
ConfigIsFile == configExists

\* lines 207-217.  The print of the missing-file branch applies % to a
\* string with no conversion, which raises TypeError before anything is
\* printed and before sys.exit(1) is reached.
ConfigCheck ==
    /\ pc = "config"
    /\ IF ~ConfigIsFile
         THEN /\ Die("TypeError")
              /\ UNCHANGED proto_files_to_lint
         ELSE /\ proto_files_to_lint' = SelectSeq(all_files, EndsWithProto)
              /\ pc' = "start"
              /\ UNCHANGED <<exitCode, raised>>
    /\ UNCHANGED <<envVars, installVars, all_files, nl_idx, total_files_checked,
                   total_error_count, failed, newline_messages, linter_messages,
                   console, nl_errors, waited, workerVars, runVars>>

\* lines 219-230: the queue, the process, process.start()
StartWorker ==
    /\ pc = "start"
    /\ wpc' = "started"
    /\ pc' = "join"
    /\ UNCHANGED <<envVars, installVars, all_files, nl_idx, total_files_checked,
                   total_error_count, failed, newline_messages,
                   proto_files_to_lint, linter_messages, exitCode, raised,
                   console, nl_errors, waited, widx, errors_exist, invoked,
                   queue, runVars>>

\* the worker process has not ended
WorkerAlive == wpc \in {"started", "loop", "hung"}

\* process.join(timeout=600) gives up once this much time has passed
JoinExpired(t) == t >= JOIN_TIMEOUT

Min(a, b) == IF a < b THEN a ELSE b

\* time passes while the controller is blocked in join()
JoinWait ==
    /\ pc = "join"
    /\ WorkerAlive
    /\ ~JoinExpired(waited)
    /\ waited' = Min(waited + TimeStep, JOIN_TIMEOUT)
    /\ UNCHANGED <<envVars, installVars, pc, all_files, nl_idx,
                   total_files_checked, total_error_count, failed,
                   newline_messages, proto_files_to_lint, linter_messages,
                   exitCode, raised, console, nl_errors, workerVars, runVars>>

\* join() returns: the worker ended, or the timeout passed
JoinReturn ==
    /\ pc = "join"
    /\ ~WorkerAlive \/ JoinExpired(waited)
    /\ pc' = "get"
    /\ UNCHANGED <<envVars, installVars, all_files, nl_idx, total_files_checked,
                   total_error_count, failed, newline_messages,
                   proto_files_to_lint, linter_messages, exitCode, raised,
                   console, nl_errors, waited, workerVars, runVars>>

\* proto_result.get(block=False): the head of the queue, or Queue.Empty,
\* which nothing catches
GetResult ==
    /\ pc = "get"
    /\ IF queue = <<>>
         THEN /\ Die("Empty")
              /\ UNCHANGED <<linter_messages, queue>>
         ELSE /\ linter_messages' = <<Head(queue)>>
              /\ queue' = Tail(queue)
              /\ pc' = "verdict"
              /\ UNCHANGED <<exitCode, raised>>
    /\ UNCHANGED <<envVars, installVars, all_files, nl_idx, total_files_checked,
                   total_error_count, failed, newline_messages,
                   proto_files_to_lint, console, nl_errors, waited, wpc, widx,
                   errors_exist, invoked, runVars>>

(***************************************************************************)
(* main()                                                                  *)
(***************************************************************************)
\* any([message.startswith(_MESSAGE_TYPE_FAILED) for message in all_messages])
AnyFailed(messages) == \E i \in 1..Len(messages) : StartsWithFailed(messages[i])

\* lines 307-310
MainVerdict ==
    /\ pc = "verdict"
    /\ LET all_messages == linter_messages \o newline_messages
       IN  exitCode' = IF AnyFailed(all_messages) THEN 1 ELSE 0
    /\ pc' = "finalize"
    /\ UNCHANGED <<envVars, installVars, all_files, nl_idx, total_files_checked,
                   total_error_count, failed, newline_messages,
                   proto_files_to_lint, linter_messages, raised, console,
                   nl_errors, waited, workerVars, runVars>>

\* the exit handler multiprocessing registers joins, with no timeout, every
\* child that is not a daemon (the worker is created without daemon=True)
\* before the interpreter ends
ExitHandlerDone == ~WorkerAlive

Finalize ==
    /\ pc = "finalize"
    /\ ExitHandlerDone
    /\ pc' = "exited"
    /\ UNCHANGED <<envVars, installVars, all_files, nl_idx, total_files_checked,
                   total_error_count, failed, newline_messages,
                   proto_files_to_lint, linter_messages, exitCode, raised,
                   console, nl_errors, waited, workerVars, runVars>>

(***************************************************************************)
(* _lint_proto_files(): the worker process                                 *)
(***************************************************************************)
\* lines 133-146: the empty list is answered at once
WorkerBegin ==
    /\ wpc = "started"
    /\ IF proto_files_to_lint = <<>>
         THEN /\ queue' = Append(queue, EmptyMessage)
              /\ console' = console \cup {Line("no_proto_files", <<>>)}
              /\ wpc' = "returned"
         ELSE /\ wpc' = "loop"
              /\ UNCHANGED <<queue, console>>
    /\ UNCHANGED <<envVars, installVars, pc, all_files, nl_idx,
                   total_files_checked, total_error_count, failed,
                   newline_messages, proto_files_to_lint, linter_messages,
                   exitCode, raised, nl_errors, waited, widx, errors_exist,
                   invoked, runVars>>

\* mutant: the loop is left at the first failing file
BreakAfterLintFailure(i) == Len(proto_files_to_lint) + 1

\* what the loop does after subprocess.CalledProcessError
AfterLintFailure(i) == i + 1

\* one iteration of `for proto_file in files_to_lint`: subprocess.check_output
\* returns, raises CalledProcessError (caught), raises OSError because the
\* binary cannot be executed (not caught: the worker dies), or never returns
LintFile ==
    /\ wpc = "loop"
    /\ widx <= Len(proto_files_to_lint)
    /\ LET proto_file == proto_files_to_lint[widx]
       IN  /\ invoked' = Append(invoked, proto_file)
           /\ IF tp # "binx"
                THEN /\ wpc' = "died"
                     /\ UNCHANGED <<widx, errors_exist>>
                ELSE LET v == verdict[Resolve(proto_file)]
                     IN  \/ /\ v = "ok"
                            /\ widx' = widx + 1
                            /\ UNCHANGED <<wpc, errors_exist>>
                         \/ /\ v = "fail"
                            /\ errors_exist' = TRUE
                            /\ widx' = AfterLintFailure(widx)
                            /\ UNCHANGED wpc
                         \/ /\ v = "hang"
                            /\ wpc' = "hung"
                            /\ UNCHANGED <<widx, errors_exist>>
    /\ UNCHANGED <<envVars, installVars, ctlVars, queue, runVars>>

\* mutant: the count and the elapsed time change places in the format
ProtoSummaryMessageSwapped(errors, num_proto_files, secs) ==
    IF errors THEN Message(_MESSAGE_TYPE_FAILED, "Proto linting failed", 0, 0)
    ELSE Message(_MESSAGE_TYPE_SUCCESS, "Proto files linted", secs, num_proto_files)

\* the summary the worker enqueues
ProtoSummaryMessage(errors, num_proto_files, secs) ==
    IF errors THEN Message(_MESSAGE_TYPE_FAILED, "Proto linting failed", 0, 0)
    ELSE Message(_MESSAGE_TYPE_SUCCESS, "Proto files linted", num_proto_files, secs)

\* lines 157-163: one summary after the loop; the elapsed time is whatever
\* the clock says
WorkerPut ==
    /\ wpc = "loop"
    /\ widx > Len(proto_files_to_lint)
    /\ \E secs \in 0..MaxSecs :
          queue' = Append(queue, ProtoSummaryMessage(
                       errors_exist, Len(proto_files_to_lint), secs))
    /\ wpc' = "returned"
    /\ UNCHANGED <<envVars, installVars, ctlVars, widx, errors_exist, invoked,
                   runVars>>

(***************************************************************************)
(* The linter is run again on the same repository state.                   *)
(***************************************************************************)
Rerun ==
    /\ pc = "exited"
    /\ run < MaxRuns
    /\ run' = run + 1
    /\ prev' = [done |-> TRUE, newline |-> newline_messages,
                linter |-> linter_messages, exitCode |-> exitCode,
                raised |-> raised]
    /\ pc' = "import"
    /\ all_files' = <<>>
    /\ nl_idx' = 1
    /\ total_files_checked' = 0
    /\ total_error_count' = 0
    /\ failed' = FALSE
    /\ newline_messages' = <<>>
    /\ proto_files_to_lint' = <<>>
    /\ linter_messages' = <<>>
    /\ exitCode' = 0
    /\ raised' = "none"
    /\ console' = {}
    /\ nl_errors' = <<>>
    /\ waited' = 0
    /\ wpc' = "none"
    /\ widx' = 1
    /\ errors_exist' = FALSE
    /\ invoked' = <<>>
    /\ queue' = <<>>
    /\ UNCHANGED <<envVars, installVars>>

Next ==
    \/ InstallMain
    \/ Makedirs
    \/ UrlRetrieve
    \/ MakeExecutable
    \/ ModuleLoad
    \/ GetAllFiles
    \/ CheckNewlineFile
    \/ NewlineSummary
    \/ ConfigCheck
    \/ StartWorker
    \/ JoinWait
    \/ JoinReturn
    \/ GetResult
    \/ MainVerdict
    \/ Finalize
    \/ WorkerBegin
    \/ LintFile
    \/ WorkerPut
    \/ Rerun

Spec == Init /\ [][Next]_vars

\* every process that can take a step eventually takes one
FairSpec == Spec /\ WF_vars(Next)

(***************************************************************************)
(* The newline checker on its own: _check_newline_character(all_files)     *)
(* called on every short list of files over every content up to MaxLen.    *)
(***************************************************************************)
InitNewline ==
    /\ cwdOk = TRUE
    /\ tp = "binx"
    /\ configExists = TRUE
    /\ args = ChangedArgs(<<>>, <<>>)
    /\ fs \in {f \in [RepoFiles -> Contents] : f[E] = WellEnded /\ f[B] = WellEnded}
    /\ verdict = [p \in LintedFiles |-> "ok"]
    /\ ipc = "idle"
    /\ installs = 0
    /\ downloads = 0
    /\ pc = "newline"
    /\ all_files \in SeqsUpTo({A, T, E}, MaxFiles)
    /\ nl_idx = 1
    /\ total_files_checked = 0
    /\ total_error_count = 0
    /\ failed = FALSE
    /\ newline_messages = <<>>
    /\ proto_files_to_lint = <<>>
    /\ linter_messages = <<>>
    /\ exitCode = 0
    /\ raised = "none"
    /\ console = {}
    /\ nl_errors = <<>>
    /\ waited = 0
    /\ wpc = "none"
    /\ widx = 1
    /\ errors_exist = FALSE
    /\ invoked = <<>>
    /\ queue = <<>>
    /\ run = 1
    /\ prev = NoRun

NextNewline ==
    \/ CheckNewlineFile
    \/ NewlineSummary

SpecNewline == InitNewline /\ [][NextNewline]_vars

(***************************************************************************)
(* Vocabulary of the properties.                                           *)
(***************************************************************************)
Range(seq) == {seq[i] : i \in 1..Len(seq)}

Terminating == pc \in {"finalize", "exited"}

\* --path names nothing that exists, or --files names something that is
\* not a file
SelectionFails ==
    \/ args.mode = "path" /\ Resolve(args.path) \notin RepoFiles \cup Directories
    \/ args.mode = "files" /\ \E i \in 1..Len(args.files) :
                                  Resolve(args.files[i]) \notin RepoFiles

\* no precondition of the run is unmet
NoFatalPrecondition == tp \in {"bin", "binx"} /\ configExists /\ ~SelectionFails

\* every summary the worker has produced, read by the controller or not
ProtoSummaries == linter_messages \o queue

NewlineStageUntouched ==
    total_files_checked = 0 /\ nl_errors = <<>> /\ newline_messages = <<>>

ProtoStageUntouched ==
    wpc = "none" /\ invoked = <<>> /\ ProtoSummaries = <<>>

\* the newline convention as the documentation words it
ViolatesConvention(content) ==
    CASE Len(content) = 0 -> FALSE
      [] Len(content) = 1 -> TRUE
      [] OTHER -> ~(content[Len(content)] = NL /\ content[Len(content) - 1] # NL)

\* the files the newline checker has inspected so far, and those among them
\* that break the convention
Inspected == SubSeq(NewlineFiles, 1, nl_idx - 1)
ViolatesAt(i) == ViolatesConvention(fs[Resolve(NewlineFiles[i])])
ViolatingPositions == {i \in 1..(nl_idx - 1) : ViolatesAt(i)}

(***************************************************************************)
(* C1: when no fatal precondition fails, a finished run has completed both *)
(* stages, and its exit status is 1 exactly when a collected summary       *)
(* carries the FAILED tag.  The code does not keep this: a worker that     *)
(* dies or outlasts the join leaves the queue empty, get(block=False)      *)
(* raises, and the run ends with status 1 with no FAILED summary.          *)
(***************************************************************************)
C1_ExitOneIffFailedSummary ==
    (Terminating /\ NoFatalPrecondition) =>
        /\ Len(newline_messages) = 1
        /\ Len(linter_messages) = 1
        /\ (exitCode = 1) <=> AnyFailed(linter_messages \o newline_messages)

(***************************************************************************)
(* C2: once the controller waits for the worker, the run terminates,       *)
(* whatever the worker does.  The code does not keep this: the wait in     *)
(* join() is bounded, but the interpreter's exit handler joins the         *)
(* non-daemon worker with no timeout.                                      *)
(***************************************************************************)
C2_RunTerminates == (pc = "join") ~> (pc = "exited")

(***************************************************************************)
(* C3 as stated: with no .proto file in the file set, the worker's summary *)
(* carries the SUCCESS tag, the "no files" line is printed and the linter  *)
(* is never invoked.                                                       *)
(***************************************************************************)
NoProtoInFileSet == \A i \in 1..Len(all_files) : all_files[i].ext # "proto"

C3_NoProtoReportsSuccess ==
    (wpc = "returned" /\ NoProtoInFileSet) =>
        /\ invoked = <<>>
        /\ Line("no_proto_files", <<>>) \in console
        /\ Len(ProtoSummaries) = 1
        /\ ProtoSummaries[1].tag = "SUCCESS"

(***************************************************************************)
(* C3 amended: with no .proto file in the file set, the worker enqueues    *)
(* exactly one summary, which is the empty string (no tag, so not FAILED), *)
(* prints the "no files" line and never invokes the linter.                *)
(***************************************************************************)
C3_NoProtoReportsEmpty ==
    (wpc = "returned" /\ NoProtoInFileSet) =>
        /\ invoked = <<>>
        /\ Line("no_proto_files", <<>>) \in console
        /\ Len(ProtoSummaries) = 1
        /\ ProtoSummaries[1].tag = ""
        /\ ProtoSummaries[1].text = ""
        /\ ~AnyFailed(ProtoSummaries)

C3_Witness ==
    /\ pc = "exited"
    /\ wpc = "returned"
    /\ NoProtoInFileSet
    /\ Len(all_files) > 0
    /\ Len(linter_messages) = 1
    /\ linter_messages[1].tag = ""

(***************************************************************************)
(* C4: on a non-empty list the worker invokes the linter on the entries    *)
(* one by one in input order; a failing file does not stop the loop; no    *)
(* summary exists before the loop ends, and when the worker returns every  *)
(* entry has been invoked once and exactly one summary exists, FAILED if   *)
(* some invocation exited non-zero, else SUCCESS with the file count.      *)
(***************************************************************************)
SomeInvocationFailed ==
    \E i \in 1..Len(invoked) : verdict[Resolve(invoked[i])] = "fail"

C4_LintEveryFileOnce ==
    (wpc # "none" /\ proto_files_to_lint # <<>>) =>
        /\ Len(invoked) <= Len(proto_files_to_lint)
        /\ invoked = SubSeq(proto_files_to_lint, 1, Len(invoked))
        /\ (wpc # "returned") => ProtoSummaries = <<>>
        /\ (wpc = "returned") =>
              /\ invoked = proto_files_to_lint
              /\ Len(ProtoSummaries) = 1
              /\ IF SomeInvocationFailed
                   THEN ProtoSummaries[1].tag = "FAILED"
                   ELSE /\ ProtoSummaries[1].tag = "SUCCESS"
                        /\ ProtoSummaries[1].count = Len(proto_files_to_lint)

C4_Witness ==
    /\ wpc = "returned"
    /\ Len(invoked) = 2
    /\ verdict[Resolve(invoked[1])] = "fail"
    /\ verdict[Resolve(invoked[2])] = "ok"
    /\ ProtoSummaries[1].tag = "FAILED"

(***************************************************************************)
(* C5: the newline checker flags exactly the files that break the          *)
(* convention (length 1, or longer and not ending in exactly one newline;  *)
(* never an empty file); the error count is the number of flagged files,   *)
(* the checked count the number of files inspected, and the summary is     *)
(* FAILED exactly when some file was flagged.                              *)
(***************************************************************************)
C5_NewlineCounts ==
    (pc \in {"newline", "config"}) =>
        /\ total_files_checked = Len(Inspected)
        /\ total_error_count = Cardinality(ViolatingPositions)
        /\ Len(nl_errors) = total_error_count
        /\ \A i \in 1..(nl_idx - 1) :
              ViolatesAt(i) <=> (\E k \in 1..Len(nl_errors) :
                                    nl_errors[k].what = <<NewlineFiles[i]>>)
        /\ failed <=> (ViolatingPositions # {})
        /\ (pc = "config") =>
              /\ nl_idx = Len(NewlineFiles) + 1
              /\ Len(newline_messages) = 1
              /\ (newline_messages[1].tag = "FAILED") <=> (ViolatingPositions # {})
              /\ (newline_messages[1].tag = "SUCCESS") <=> (ViolatingPositions = {})

C5_Witness ==
    /\ pc = "config"
    /\ total_files_checked = 3
    /\ total_error_count = 1
    /\ \E i \in 1..2 : Len(fs[Resolve(NewlineFiles[i])]) = 0
    /\ \E i \in 1..3 : Len(fs[Resolve(NewlineFiles[i])]) = 1
    /\ newline_messages[1].tag = "FAILED"

(***************************************************************************)
(* C6: when file selection fails (--path names nothing that exists, or     *)
(* --files names an entry that is not a file) the run ends with status 1,  *)
(* neither stage has processed anything, and in the --files case the       *)
(* diagnostic names every entry that is not a file, and only those.        *)
(***************************************************************************)
SelectionReached == tp \in {"bin", "binx"} /\ pc \notin {"import", "select"}

C6_SelectionFailureIsFatal ==
    (SelectionReached /\ SelectionFails) =>
        /\ Terminating
        /\ exitCode = 1
        /\ all_files = <<>>
        /\ NewlineStageUntouched
        /\ ProtoStageUntouched
        /\ (args.mode = "files") =>
              \E l \in console :
                 /\ l.kind = "do_not_exist"
                 /\ \A i \in 1..Len(args.files) :
                       (Resolve(args.files[i]) \notin RepoFiles)
                          <=> (args.files[i] \in Range(l.what))
        /\ (args.mode = "path") =>
              \E l \in console : l.kind = "not_located"

C6_Witness ==
    /\ pc = "exited"
    /\ tp = "binx"
    /\ args.mode = "files"
    /\ Cardinality({i \in 1..Len(args.files) :
                       Resolve(args.files[i]) \notin RepoFiles}) = 2
    /\ \E i \in 1..Len(args.files) : Resolve(args.files[i]) \in RepoFiles
    /\ exitCode = 1

(***************************************************************************)
(* C7 as stated: when the configuration file is missing (and nothing       *)
(* earlier fails) the condition is reported, the run ends with status 1,   *)
(* and neither the newline stage nor the proto-lint stage has executed.    *)
(***************************************************************************)
OnlyConfigMissing ==
    ~configExists /\ tp \in {"bin", "binx"} /\ ~SelectionFails /\ Terminating

C8_WrongDirectoryIsFatal ==
    (~cwdOk /\ pc # "import") =>
        /\ Line("cwd_error", <<>>) \in console
        /\ Terminating
        /\ exitCode = 1
        /\ all_files = <<>>
        /\ NewlineStageUntouched
        /\ ProtoStageUntouched

(***************************************************************************)
(* C9 as stated: a second run on the same file set and repository state,   *)
(* in which, as in the first, the controller obtained the worker's result  *)
(* or stopped at the same precondition, ends with the same summaries from  *)
(* both stages and the same exit status.                                   *)
(***************************************************************************)
BothRunsDone == prev.done /\ pc = "exited"
NoJoinRace == raised # "Empty" /\ prev.raised # "Empty"

SameButSecs(m1, m2) ==
    /\ Len(m1) = Len(m2)
    /\ \A i \in 1..Len(m1) :
          /\ m1[i].tag = m2[i].tag
          /\ m1[i].text = m2[i].text
          /\ m1[i].count = m2[i].count

C10_InstalledAfterReturn ==
    (ipc = "returned") => tp \in {"bin", "binx"}

====
